---- MODULE Spec2Model ----
(***************************************************************************)
(* Model of simple-config-loader (src/src/lib.rs).                         *)
(*                                                                         *)
(* Strings are sequences of one-character strings, so that formatting      *)
(* (format!), case conversion, prefix matching and parsing are computed.   *)
(* The process environment, the files under the config directories and the *)
(* OnceLock cell CONFIG are the state; every thread of the process has a   *)
(* position in init / get_or_init / read_config_vars_from_all_sources.     *)
(***************************************************************************)
EXTENDS Integers, Sequences, FiniteSets, TLC

\* ------------------------------------------------------------------ bounds
\* number of spawned threads besides the main thread
MaxWorkers == 1

Main == 0
Threads == 0..MaxWorkers

\* ----------------------------------------------------------------- strings
Upper == <<"A","B","C","D","E","F","G","H","I","J","K","L","M",
           "N","O","P","Q","R","S","T","U","V","W","X","Y","Z">>
Lower == <<"a","b","c","d","e","f","g","h","i","j","k","l","m",
           "n","o","p","q","r","s","t","u","v","w","x","y","z">>

\* char::to_lowercase on the ASCII range
LowerChar(c) ==
  IF \E i \in 1..26 : Upper[i] = c
    THEN Lower[CHOOSE i \in 1..26 : Upper[i] = c]
    ELSE c

\* str::to_lowercase
ToLowercase(s) == [i \in 1..Len(s) |-> LowerChar(s[i])]

\* str::starts_with
StartsWith(s, p) == Len(p) <= Len(s) /\ SubSeq(s, 1, Len(p)) = p

\* s with its first n characters removed
DropChars(s, n) == SubSeq(s, n + 1, Len(s))

\* str::replace(from, to), leftmost non-overlapping matches
RECURSIVE Replace(_, _, _)
Replace(s, from, to) ==
  IF s = <<>> THEN <<>>
  ELSE IF StartsWith(s, from) THEN to \o Replace(DropChars(s, Len(from)), from, to)
  ELSE <<Head(s)>> \o Replace(Tail(s), from, to)

\* str::split(sep) for a one-character separator: the list of pieces
RECURSIVE SplitAcc(_, _, _)
SplitAcc(s, sep, cur) ==
  IF s = <<>> THEN <<cur>>
  ELSE IF Head(s) = sep THEN <<cur>> \o SplitAcc(Tail(s), sep, <<>>)
  ELSE SplitAcc(Tail(s), sep, Append(cur, Head(s)))

Split(s, sep) == SplitAcc(s, sep, <<>>)

Digits == {"0","1","2","3","4","5","6","7","8","9"}

\* str::parse::<i64>() succeeds (unsigned decimal literals only are enumerated)
ParsesAsInt(s) == s # <<>> /\ \A i \in 1..Len(s) : s[i] \in Digits

\* ------------------------------------------------------- names and literals
ENV_VAR == <<"E","N","V">>
CONFIG_DIR_VAR == <<"C","O","N","F","I","G","_","D","I","R">>
KEY_VAR == <<"S","E","C","R","E","T","S","_","E","N","C","R","Y","P","T","I","O","N","_","K","E","Y">>
\* application variables: one unprefixed, one carrying the prefix P and "__"
A_VAR == <<"A">>
PA_VAR == <<"P","_","_","A">>

VarNames == {ENV_VAR, CONFIG_DIR_VAR, KEY_VAR, A_VAR, PA_VAR}

None == "none"

DefaultConfigDir == <<".","/","c","o","n","f">>
DefaultEnvName == <<"d","e","v">>
PrefixSeparator == <<"_","_">>
Separator == <<"_","_">>
ListSeparator == ","

\* ------------------------------------------------------------- Environment
Environment == {"Dev", "Stag", "Prod"}

\* strum Display with serialize_all = "lowercase"
EnvDisplay(e) ==
  CASE e = "Dev" -> <<"d","e","v">>
    [] e = "Stag" -> <<"s","t","a","g">>
    [] e = "Prod" -> <<"p","r","o","d">>

\* a parse that ignores the case of the name
EnvFromStrIgnoreCase(s) ==
  IF \E e \in Environment : EnvDisplay(e) = ToLowercase(s)
    THEN CHOOSE e \in Environment : EnvDisplay(e) = ToLowercase(s)
    ELSE None

\* a parse that falls back to Dev for an unknown name
EnvFromStrOrDev(s) ==
  IF \E e \in Environment : EnvDisplay(e) = s
    THEN CHOOSE e \in Environment : EnvDisplay(e) = s
    ELSE "Dev"

\* strum EnumString with serialize_all = "lowercase": an exact match of the
\* serialized name; None stands for Err(VariantNotFound)
EnvFromStr(s) ==
  IF \E e \in Environment : EnvDisplay(e) = s
    THEN CHOOSE e \in Environment : EnvDisplay(e) = s
    ELSE None

\* ------------------------------------------------------------------- paths
\* format!("{config_dir}/<name>")
PathIn(dir, name) == dir \o <<"/">> \o name

DotEnvFile == <<".","e","n","v">>
LocalEnvFile == <<"l","o","c","a","l",".","e","n","v">>
DefaultEnvFile == <<"d","e","f","a","u","l","t",".","e","n","v">>
EnvEnvFile(e) == EnvDisplay(e) \o <<".","e","n","v">>
EnvSecretsEnvEncFile(e) ==
  EnvDisplay(e) \o <<"-","s","e","c","r","e","t","s",".","e","n","v",".","e","n","c">>
DefaultYamlFile == <<"d","e","f","a","u","l","t",".","y","a","m","l">>
EnvYamlFile(e) == EnvDisplay(e)
EnvSecretsYamlFile(e) ==
  EnvDisplay(e) \o <<"-","s","e","c","r","e","t","s",".","y","a","m","l">>
EnvSecretsYamlEncFile(e) ==
  EnvDisplay(e) \o <<"-","s","e","c","r","e","t","s",".","y","a","m","l",".","e","n","c">>
LocalSecretsYamlEncFile ==
  <<"l","o","c","a","l","-","s","e","c","r","e","t","s",".","y","a","m","l",".","e","n","c">>
LocalYamlFile == <<"l","o","c","a","l",".","y","a","m","l">>

\* extensions config's FileFormat::Yaml probes when the exact name is no file
YamlExtensions == << <<".","y","a","m","l">>, <<".","y","m","l">> >>

\* ------------------------------------------------------- maps and contents
\* a map is a function whose domain is the set of its keys
EmptyMap == <<>>
Has(m, k) == k \in DOMAIN m
\* m with k set to v
Put(m, k, v) == (k :> v) @@ m
\* a merge that keeps the entry of the earlier source
MergeKeepsLower(lo, hi) == lo @@ hi

\* key-by-key merge, the entries of hi overriding those of lo
Merge(lo, hi) == hi @@ lo

\* Option<T>: <<>> is None, <<x>> is Some(x)
Some(x) == <<x>>
IsSome(o) == o # <<>>

\* a line of dotenv text: an assignment, or a line dotenvy cannot parse
\* (bad syntax or bytes that are no valid text)
Assign(k, v) == [ok |-> TRUE, k |-> k, v |-> v]
BadLine == [ok |-> FALSE, k |-> <<>>, v |-> <<>>]

\* file contents
DotenvText(lines) == [t |-> "dotenv", lines |-> lines, map |-> EmptyMap]
YamlText(m) == [t |-> "yaml", lines |-> <<>>, map |-> m]
BadYaml == [t |-> "badyaml", lines |-> <<>>, map |-> EmptyMap]
NotUtf8 == [t |-> "notutf8", lines |-> <<>>, map |-> EmptyMap]
\* ciphertext of plain under key; Corrupt is a file no key decrypts
Encrypted(key, plain) == [t |-> "enc", key |-> key, plain |-> plain]
Corrupt == [t |-> "corrupt"]

\* config values
StrVal(s) == [t |-> "str", v |-> s]
IntVal(s) == [t |-> "int", v |-> s]
ListVal(l) == [t |-> "list", v |-> l]

\* --------------------------------------------------------------- dotenvy
\* a load that overrides whatever is set
NotInEnvIgnored(e, name) == TRUE

\* env::var(name).is_err() on an environment of valid text values
NotInEnv(e, name) == ~ Has(e, name)

\* dotenvy Iter::load: each parsed pair is set unless the variable is set
\* already; the first line that fails to parse ends the load with Err, the
\* pairs before it stay set
RECURSIVE LoadLines(_, _)
LoadLines(e, lines) ==
  IF lines = <<>> THEN [ok |-> TRUE, env |-> e]
  ELSE IF ~ Head(lines).ok THEN [ok |-> FALSE, env |-> e]
  ELSE LoadLines(IF NotInEnv(e, Head(lines).k)
                   THEN Put(e, Head(lines).k, Head(lines).v)
                   ELSE e,
                 Tail(lines))

\* the lines dotenvy reads from a buffer
LinesOf(content) == IF content.t = "dotenv" THEN content.lines ELSE <<BadLine>>

\* dotenvy::from_read(bytes)
FromRead(e, content) == LoadLines(e, LinesOf(content))

\* dotenvy::from_path(path): Err without effect when the file cannot be opened
FromPath(e, files, path) ==
  IF Has(files, path) THEN FromRead(e, files[path]) ELSE [ok |-> FALSE, env |-> e]

\* dotenvy::from_path(path).ok(): the result is dropped
FromPathOk(e, files, path) == FromPath(e, files, path).env

\* the four plaintext files with default.env loaded before local.env
LoadDotenvFilesDefaultFirst(e, files, dir, en) ==
  FromPathOk(
    FromPathOk(
      FromPathOk(
        FromPathOk(e, files, PathIn(dir, DotEnvFile)),
        files, PathIn(dir, DefaultEnvFile)),
      files, PathIn(dir, EnvEnvFile(en))),
    files, PathIn(dir, LocalEnvFile))

\* lines 54-57: the four plaintext files, in this order
LoadDotenvFiles(e, files, dir, en) ==
  FromPathOk(
    FromPathOk(
      FromPathOk(
        FromPathOk(e, files, PathIn(dir, DotEnvFile)),
        files, PathIn(dir, LocalEnvFile)),
      files, PathIn(dir, EnvEnvFile(en))),
    files, PathIn(dir, DefaultEnvFile))

\* ------------------------------------------------------------ decryption
\* simple_encrypt::decrypt_file(path, key): Ok(plain) only for a file that
\* exists, is a ciphertext, and was encrypted under this key
DecryptFile(files, path, key) ==
  IF Has(files, path) /\ files[path].t = "enc" /\ files[path].key = key
    THEN [ok |-> TRUE, plain |-> files[path].plain]
    ELSE [ok |-> FALSE, plain |-> NotUtf8]

\* a load for which a failed decryption is an error
LoadSecretsEnvStrict(e, files, dir, en, key) ==
  IF IsSome(key)
    THEN LET d == DecryptFile(files, PathIn(dir, EnvSecretsEnvEncFile(en)), key[1])
         IN  IF d.ok THEN FromRead(e, d.plain) ELSE [ok |-> FALSE, env |-> e]
    ELSE [ok |-> TRUE, env |-> e]

\* lines 64-71: decrypted <env>-secrets.env.enc goes through from_read and `?`
LoadSecretsEnv(e, files, dir, en, key) ==
  IF IsSome(key)
    THEN LET d == DecryptFile(files, PathIn(dir, EnvSecretsEnvEncFile(en)), key[1])
         IN  IF d.ok THEN FromRead(e, d.plain) ELSE [ok |-> TRUE, env |-> e]
    ELSE [ok |-> TRUE, env |-> e]

\* ------------------------------------------------------ structured sources
\* a lookup that tries the name only with the extensions of the format
FindFileWithExtension(files, path) ==
  IF Has(files, path \o YamlExtensions[1]) THEN Some(path \o YamlExtensions[1])
  ELSE IF Has(files, path \o YamlExtensions[2]) THEN Some(path \o YamlExtensions[2])
  ELSE <<>>

\* config::File::new(path, Yaml): the exact name if it is a file, else the name
\* with each extension of the format; None when there is no such file
FindFile(files, path) ==
  IF Has(files, path) THEN Some(path)
  ELSE IF Has(files, path \o YamlExtensions[1]) THEN Some(path \o YamlExtensions[1])
  ELSE IF Has(files, path \o YamlExtensions[2]) THEN Some(path \o YamlExtensions[2])
  ELSE <<>>

\* parsing a text as Yaml: Err for bytes that are no text and for bad syntax
ParseYaml(content) ==
  IF content.t = "yaml" THEN [ok |-> TRUE, map |-> content.map]
  ELSE [ok |-> FALSE, map |-> EmptyMap]

\* File::new(path, Yaml).required(false), collected: no file is an empty source
FileSource(files, path) ==
  IF IsSome(FindFile(files, path))
    THEN ParseYaml(files[FindFile(files, path)[1]])
    ELSE [ok |-> TRUE, map |-> EmptyMap]

\* convert_case(Case::Lower) on an already lowercased key: the words, split at
\* "_", "-" and " ", joined by one space
ConvertCaseLower(s) ==
  [i \in 1..Len(s) |-> IF s[i] \in {"_", "-"} THEN " " ELSE LowerChar(s[i])]

\* config::Environment: the key a variable binds to, None when the prefix
\* pattern (prefix, prefix separator, lowercased) does not start its name
EnvKey(name, prefix) ==
  LET lk == ToLowercase(name)
      pat == IF IsSome(prefix) THEN ToLowercase(prefix[1] \o PrefixSeparator) ELSE <<>>
  IN  IF IsSome(prefix) /\ ~ StartsWith(lk, pat) THEN <<>>
      ELSE Some(ConvertCaseLower(Replace(DropChars(lk, Len(pat)), Separator, <<".">>)))

\* a source that splits the text of every key once list parsing is switched on
EnvValueSplitAll(key, text, list_parse_keys) ==
  IF list_parse_keys = {} THEN StrVal(text)
  ELSE IF ParsesAsInt(text) THEN IntVal(text)
  ELSE ListVal(Split(text, ListSeparator))

\* config::Environment: the value of a variable. try_parsing and the list
\* separator are switched on only for a non-empty list_parse_keys (line 126)
EnvValue(key, text, list_parse_keys) ==
  IF list_parse_keys = {} THEN StrVal(text)
  ELSE IF ParsesAsInt(text) THEN IntVal(text)
  ELSE IF ToLowercase(key) \in list_parse_keys THEN ListVal(Split(text, ListSeparator))
  ELSE StrVal(text)

\* the variables of e the environment source binds, each with its key
BoundVars(e, prefix) ==
  {b \in {<<n, EnvKey(n, prefix)>> : n \in DOMAIN e} : IsSome(b[2])}

\* lines 118-134, collected: the map of the environment-variable source
EnvSource(e, prefix, list_parse_keys) ==
  LET bound == BoundVars(e, prefix)
      var(k) == (CHOOSE b \in bound : b[2][1] = k)[1]
  IN  [k \in {b[2][1] : b \in bound} |-> EnvValue(k, e[var(k)], list_parse_keys)]

\* a decrypted buffer as a source: String::from_utf8(decrypted)? (lines 97, 103)
\* then File::from_str(text, Yaml)
IsUtf8(content) == content.t # "notutf8"

\* ConfigBuilder::build over the sources in the order they were added: the
\* first source that fails to parse fails the build
RECURSIVE BuildSources(_, _)
BuildSources(srcs, acc) ==
  IF srcs = <<>> THEN [ok |-> TRUE, tree |-> acc]
  ELSE IF ~ Head(srcs).ok THEN [ok |-> FALSE, tree |-> EmptyMap]
  ELSE BuildSources(Tail(srcs), Merge(acc, Head(srcs).map))

\* decrypted secrets buffers that are tried under a built-in key when none is set
DecryptedSourcesDefaultKey(files, dir, en, key) ==
  LET k == IF IsSome(key) THEN key[1] ELSE <<"k">>
      d1 == DecryptFile(files, PathIn(dir, EnvSecretsYamlEncFile(en)), k)
      d2 == DecryptFile(files, PathIn(dir, LocalSecretsYamlEncFile), k)
  IN  [utf8 |-> (d1.ok => IsUtf8(d1.plain)) /\ (d2.ok => IsUtf8(d2.plain)),
       srcs |-> (IF d1.ok THEN <<ParseYaml(d1.plain)>> ELSE <<>>)
                \o (IF d2.ok THEN <<ParseYaml(d2.plain)>> ELSE <<>>)]

\* lines 94-107: the decrypted secrets buffers, each present only with a key and
\* a successful decryption; utf8 is FALSE when a `?` on from_utf8 returns Err
DecryptedSources(files, dir, en, key) ==
  LET d1 == IF IsSome(key)
              THEN DecryptFile(files, PathIn(dir, EnvSecretsYamlEncFile(en)), key[1])
              ELSE [ok |-> FALSE, plain |-> NotUtf8]
      d2 == IF IsSome(key)
              THEN DecryptFile(files, PathIn(dir, LocalSecretsYamlEncFile), key[1])
              ELSE [ok |-> FALSE, plain |-> NotUtf8]
  IN  [utf8 |-> (d1.ok => IsUtf8(d1.plain)) /\ (d2.ok => IsUtf8(d2.plain)),
       srcs |-> (IF d1.ok THEN <<ParseYaml(d1.plain)>> ELSE <<>>)
                \o (IF d2.ok THEN <<ParseYaml(d2.plain)>> ELSE <<>>)]

\* a build that adds the environment source first, below every file
BuildConfigEnvFirst(e, files, dir, en, key, prefix, list_parse_keys) ==
  LET dec == DecryptedSources(files, dir, en, key)
  IN  IF ~ dec.utf8 THEN [ok |-> FALSE, tree |-> EmptyMap]
      ELSE BuildSources(
             << [ok |-> TRUE, map |-> EnvSource(e, prefix, list_parse_keys)],
                FileSource(files, PathIn(dir, DefaultYamlFile)),
                FileSource(files, PathIn(dir, EnvYamlFile(en))),
                FileSource(files, PathIn(dir, EnvSecretsYamlFile(en))) >>
             \o dec.srcs
             \o << FileSource(files, PathIn(dir, LocalYamlFile)) >>,
             EmptyMap)

\* lines 73-136: the Result of the structured build
BuildConfig(e, files, dir, en, key, prefix, list_parse_keys) ==
  LET dec == DecryptedSources(files, dir, en, key)
  IN  IF ~ dec.utf8 THEN [ok |-> FALSE, tree |-> EmptyMap]
      ELSE BuildSources(
             << FileSource(files, PathIn(dir, DefaultYamlFile)),
                FileSource(files, PathIn(dir, EnvYamlFile(en))),
                FileSource(files, PathIn(dir, EnvSecretsYamlFile(en))) >>
             \o dec.srcs
             \o << FileSource(files, PathIn(dir, LocalYamlFile)),
                   [ok |-> TRUE, map |-> EnvSource(e, prefix, list_parse_keys)] >>,
             EmptyMap)

\* the paths read_config_vars_from_all_sources hands to dotenvy::from_path
DotenvPaths(dir, en) ==
  << PathIn(dir, DotEnvFile), PathIn(dir, LocalEnvFile),
     PathIn(dir, EnvEnvFile(en)), PathIn(dir, DefaultEnvFile) >>

\* the paths lines 73-136 hand to decrypt_file and, when no `?` returned
\* before build(), to File::new
StructuredPaths(files, dir, en, key) ==
  LET p1 == PathIn(dir, EnvSecretsYamlEncFile(en))
      p2 == PathIn(dir, LocalSecretsYamlEncFile)
      d1 == DecryptFile(files, p1, key[1])
      d2 == DecryptFile(files, p2, key[1])
      yamls == << PathIn(dir, DefaultYamlFile), PathIn(dir, EnvYamlFile(en)),
                  PathIn(dir, EnvSecretsYamlFile(en)), PathIn(dir, LocalYamlFile) >>
  IN  IF ~ IsSome(key) THEN yamls
      ELSE IF d1.ok /\ ~ IsUtf8(d1.plain) THEN <<p1>>
      ELSE IF d2.ok /\ ~ IsUtf8(d2.plain) THEN <<p1, p2>>
      ELSE <<p1, p2>> \o yamls

\* ------------------------------------------------------------------- state
VARIABLES
  penv,     \* the process environment: variable name -> value
  files,    \* the file system: path -> contents
  CONFIG,   \* the OnceLock: state of its Once, and the value once complete
  pc,       \* per thread: where it is in init / get_or_init / the build
  loc,      \* per thread: the arguments and locals of its call
  ret,      \* per thread: how its last call to init returned, and what
            \* get_or_init handed back
  alive,    \* FALSE once the process has exited
  builds,   \* number of times the closure of get_or_init was started
  reads,    \* path -> number of times the path was handed to a reader
  penv0,    \* the process environment when the latest build started (at first,
            \* the environment the process started with)
  built     \* the arguments and locals of the build whose value is stored

vars == <<penv, files, CONFIG, pc, loc, ret, alive, builds, reads, penv0, built>>

NoLoc == [prefix |-> <<>>, list_parse_keys |-> {}, config_dir |-> <<>>,
          env |-> None, key |-> <<>>]
NoRet == [how |-> "none", tree |-> <<>>]

\* counts of reads, raised by one for every path of the sequence ps
RECURSIVE Bump(_, _)
Bump(r, ps) ==
  IF ps = <<>> THEN r
  ELSE Bump(Put(r, Head(ps), IF Has(r, Head(ps)) THEN r[Head(ps)] + 1 ELSE 1), Tail(ps))

\* the closure passed to get_or_init starts to run on thread t
StartBuild(t, l) ==
  /\ CONFIG' = [CONFIG EXCEPT !.state = "running"]
  /\ pc' = [pc EXCEPT ![t] = "resolve"]
  /\ loc' = [loc EXCEPT ![t] = l]
  /\ builds' = builds + 1
  /\ penv0' = penv
  /\ UNCHANGED <<penv, files, ret, alive, reads, built>>

\* unwrap / expect panics on thread t inside the closure: the Once is left
\* poisoned, which get_or_init treats like an incomplete one
Panic(t, why) ==
  /\ CONFIG' = [CONFIG EXCEPT !.state = "poisoned"]
  /\ pc' = [pc EXCEPT ![t] = "panicked"]
  /\ loc' = [loc EXCEPT ![t] = NoLoc]
  /\ ret' = [ret EXCEPT ![t] = [how |-> why, tree |-> <<>>]]

\* get_or_init hands a reference to the stored value back to thread t
Return(t, how, tree) ==
  /\ pc' = [pc EXCEPT ![t] = "idle"]
  /\ loc' = [loc EXCEPT ![t] = NoLoc]
  /\ ret' = [ret EXCEPT ![t] = [how |-> how, tree |-> Some(tree)]]

\* the arguments callers pass: init_default() is init(None, vec![])
Prefixes == {<<>>, Some(<<"P">>)}
ListParseKeys == {{}, {<<"a">>}}

\* an init that runs its closure whenever no other closure is running
initRebuilds(t, prefix, list_parse_keys) ==
  /\ alive /\ pc[t] = "idle"
  /\ LET l == [NoLoc EXCEPT !.prefix = prefix, !.list_parse_keys = list_parse_keys]
     IN  CASE CONFIG.state = "running" ->
                /\ pc' = [pc EXCEPT ![t] = "waiting"]
                /\ UNCHANGED <<penv, files, CONFIG, loc, ret, alive, builds, reads,
                               penv0, built>>
           [] OTHER -> StartBuild(t, l)

\* init / init_default up to the first test of the cell (lines 20-26)
init(t, prefix, list_parse_keys) ==
  /\ alive /\ pc[t] = "idle"
  /\ LET l == [NoLoc EXCEPT !.prefix = prefix, !.list_parse_keys = list_parse_keys]
     IN  CASE CONFIG.state = "complete" ->
                /\ Return(t, "noop", CONFIG.value)
                /\ UNCHANGED <<penv, files, CONFIG, alive, builds, reads, penv0, built>>
           [] CONFIG.state = "running" ->
                /\ pc' = [pc EXCEPT ![t] = "waiting"]
                /\ UNCHANGED <<penv, files, CONFIG, loc, ret, alive, builds, reads,
                               penv0, built>>
           [] OTHER -> StartBuild(t, l)

\* line 20-22
init_default(t) == init(t, <<>>, {})

\* a wait that ends before the running closure does
WakeEarly(t, prefix, list_parse_keys) ==
  /\ alive /\ pc[t] = "waiting"
  /\ IF CONFIG.state \in {"complete", "running"}
       THEN /\ Return(t, "waited", CONFIG.value)
            /\ UNCHANGED <<penv, files, CONFIG, alive, builds, reads, penv0, built>>
       ELSE StartBuild(t, [NoLoc EXCEPT !.prefix = prefix,
                                        !.list_parse_keys = list_parse_keys])

\* a thread blocked in get_or_init is woken when the running closure ends: it
\* returns the stored value, or runs its own closure after a panic. The
\* arguments its call moved into the closure are drawn here, where they are
\* first used
Wake(t, prefix, list_parse_keys) ==
  /\ alive /\ pc[t] = "waiting" /\ CONFIG.state # "running"
  /\ IF CONFIG.state = "complete"
       THEN /\ Return(t, "waited", CONFIG.value)
            /\ UNCHANGED <<penv, files, CONFIG, alive, builds, reads, penv0, built>>
       ELSE StartBuild(t, [NoLoc EXCEPT !.prefix = prefix,
                                        !.list_parse_keys = list_parse_keys])

\* lines 40-49
ResolveEnv(t) ==
  /\ alive /\ pc[t] = "resolve"
  /\ LET config_dir == IF Has(penv, CONFIG_DIR_VAR) THEN penv[CONFIG_DIR_VAR]
                       ELSE DefaultConfigDir
         env == IF Has(penv, ENV_VAR) THEN penv[ENV_VAR] ELSE DefaultEnvName
     IN  IF EnvFromStr(env) = None
           THEN /\ Panic(t, "panic_env")
                /\ UNCHANGED <<penv, files, alive, builds, reads, penv0, built>>
           ELSE /\ pc' = [pc EXCEPT ![t] = "dotenv"]
                /\ loc' = [loc EXCEPT ![t].config_dir = config_dir,
                                      ![t].env = EnvFromStr(env)]
                /\ UNCHANGED <<penv, files, CONFIG, ret, alive, builds, reads,
                               penv0, built>>

\* a merge after which the directory and the environment are resolved again
\* from the process environment
MergeDotenvFilesReresolve(t) ==
  /\ alive /\ pc[t] = "dotenv"
  /\ penv' = LoadDotenvFiles(penv, files, loc[t].config_dir, loc[t].env)
  /\ reads' = Bump(reads, DotenvPaths(loc[t].config_dir, loc[t].env))
  /\ pc' = [pc EXCEPT ![t] = "secrets"]
  /\ loc' = [loc EXCEPT
               ![t].config_dir = IF Has(penv', CONFIG_DIR_VAR) THEN penv'[CONFIG_DIR_VAR]
                                 ELSE DefaultConfigDir,
               ![t].env = IF Has(penv', ENV_VAR) /\ EnvFromStr(penv'[ENV_VAR]) # None
                            THEN EnvFromStr(penv'[ENV_VAR])
                            ELSE loc[t].env]
  /\ UNCHANGED <<files, CONFIG, ret, alive, builds, penv0, built>>

\* a merge that loads the four files a second time
MergeDotenvFilesRetry(t) ==
  /\ alive /\ pc[t] = "dotenv"
  /\ penv' = LoadDotenvFiles(LoadDotenvFiles(penv, files, loc[t].config_dir, loc[t].env),
                             files, loc[t].config_dir, loc[t].env)
  /\ reads' = Bump(Bump(reads, DotenvPaths(loc[t].config_dir, loc[t].env)),
                   DotenvPaths(loc[t].config_dir, loc[t].env))
  /\ pc' = [pc EXCEPT ![t] = "secrets"]
  /\ UNCHANGED <<files, CONFIG, loc, ret, alive, builds, penv0, built>>

\* lines 54-57
MergeDotenvFiles(t) ==
  /\ alive /\ pc[t] = "dotenv"
  /\ penv' = LoadDotenvFiles(penv, files, loc[t].config_dir, loc[t].env)
  /\ reads' = Bump(reads, DotenvPaths(loc[t].config_dir, loc[t].env))
  /\ pc' = [pc EXCEPT ![t] = "secrets"]
  /\ UNCHANGED <<files, CONFIG, loc, ret, alive, builds, penv0, built>>

\* a step that takes the key from the environment the build started with
MergeSecretsEnvKeyAtStart(t) ==
  /\ alive /\ pc[t] = "secrets"
  /\ LET key == IF Has(penv0, KEY_VAR) THEN Some(penv0[KEY_VAR]) ELSE <<>>
         r == LoadSecretsEnv(penv, files, loc[t].config_dir, loc[t].env, key)
     IN  /\ penv' = r.env
         /\ reads' = Bump(reads, IF IsSome(key)
                                   THEN <<PathIn(loc[t].config_dir,
                                                 EnvSecretsEnvEncFile(loc[t].env))>>
                                   ELSE <<>>)
         /\ IF r.ok
              THEN /\ pc' = [pc EXCEPT ![t] = "build"]
                   /\ loc' = [loc EXCEPT ![t].key = key]
                   /\ UNCHANGED <<CONFIG, ret>>
              ELSE Panic(t, "panic_secrets")
         /\ UNCHANGED <<files, alive, builds, penv0, built>>

\* lines 59-71
MergeSecretsEnv(t) ==
  /\ alive /\ pc[t] = "secrets"
  /\ LET key == IF Has(penv, KEY_VAR) THEN Some(penv[KEY_VAR]) ELSE <<>>
         r == LoadSecretsEnv(penv, files, loc[t].config_dir, loc[t].env, key)
     IN  /\ penv' = r.env
         /\ reads' = Bump(reads, IF IsSome(key)
                                   THEN <<PathIn(loc[t].config_dir,
                                                 EnvSecretsEnvEncFile(loc[t].env))>>
                                   ELSE <<>>)
         /\ IF r.ok
              THEN /\ pc' = [pc EXCEPT ![t] = "build"]
                   /\ loc' = [loc EXCEPT ![t].key = key]
                   /\ UNCHANGED <<CONFIG, ret>>
              ELSE Panic(t, "panic_secrets")
         /\ UNCHANGED <<files, alive, builds, penv0, built>>

\* lines 73-136, and get_or_init storing the value the closure returns
BuildTree(t) ==
  /\ alive /\ pc[t] = "build"
  /\ LET r == BuildConfig(penv, files, loc[t].config_dir, loc[t].env, loc[t].key,
                          loc[t].prefix, loc[t].list_parse_keys)
     IN  /\ reads' = Bump(reads, StructuredPaths(files, loc[t].config_dir, loc[t].env, loc[t].key))
         /\ IF r.ok
              THEN /\ CONFIG' = [state |-> "complete", value |-> r.tree]
                   /\ Return(t, "built", r.tree)
                   /\ built' = loc[t]
              ELSE /\ Panic(t, "panic_build")
                   /\ UNCHANGED built
         /\ UNCHANGED <<penv, files, alive, builds, penv0>>

\* a panic of the main thread ends the process; a panicked spawned thread
\* only ends itself
ProcessExit ==
  /\ alive /\ pc[Main] = "panicked"
  /\ alive' = FALSE
  /\ UNCHANGED <<penv, files, CONFIG, pc, loc, ret, builds, reads, penv0, built>>

\* ------------------------------------------------------- initial states
\* a file that may be missing: None, or Some(contents)
OptFile(path, o) == IF IsSome(o) THEN path :> o[1] ELSE EmptyMap
Opt(S) == {<<>>} \cup {Some(x) : x \in S}
\* a variable that may be unset
OptVar(name, o) == IF IsSome(o) THEN name :> o[1] ELSE EmptyMap

Conf(name) == PathIn(DefaultConfigDir, name)
KEY_A == <<"a">>
GoodKey == <<"k">>
OtherKey == <<"w">>

\* the dotenv chain in processing order: .env, local.env, <env>.env,
\* default.env and <env>-secrets.env.enc, each missing or with given contents
DotenvChain(o) ==
  OptFile(Conf(DotEnvFile), o[1]) @@ OptFile(Conf(LocalEnvFile), o[2])
  @@ OptFile(Conf(EnvEnvFile("Dev")), o[3]) @@ OptFile(Conf(DefaultEnvFile), o[4])
  @@ OptFile(Conf(EnvSecretsEnvEncFile("Dev")), o[5])

\* the value source i of a chain gives
Digit(i) == <<<<"1">>, <<"2">>, <<"3">>, <<"4">>, <<"5">>, <<"6">>, <<"7">>>>[i]

\* source i of the dotenv chain giving A its own value
DotenvGood(i) ==
  IF i = 5 THEN Encrypted(GoodKey, DotenvText(<<Assign(A_VAR, Digit(i))>>))
  ELSE DotenvText(<<Assign(A_VAR, Digit(i))>>)

\* source i of the dotenv chain with a line that does not parse, before or
\* after its assignment, and an encrypted file that does not decrypt or is no text
DotenvBad(i) ==
  LET texts == { DotenvText(<<Assign(A_VAR, Digit(i)), BadLine>>),
                 DotenvText(<<BadLine, Assign(A_VAR, Digit(i))>>) }
  IN  IF i = 5
        THEN {Corrupt, Encrypted(OtherKey, DotenvText(<<Assign(A_VAR, Digit(i))>>)),
              Encrypted(GoodKey, NotUtf8)}
             \cup {Encrypted(GoodKey, c) : c \in texts}
        ELSE texts

\* the structured chain in the order of the builder: default.yaml, <env>.yaml,
\* <env>-secrets.yaml, <env>-secrets.yaml.enc, local-secrets.yaml.enc, local.yaml
YamlChain(o) ==
  OptFile(Conf(DefaultYamlFile), o[1])
  @@ OptFile(Conf(EnvYamlFile("Dev")) \o YamlExtensions[1], o[2])
  @@ OptFile(Conf(EnvSecretsYamlFile("Dev")), o[3])
  @@ OptFile(Conf(EnvSecretsYamlEncFile("Dev")), o[4])
  @@ OptFile(Conf(LocalSecretsYamlEncFile), o[5])
  @@ OptFile(Conf(LocalYamlFile), o[6])

\* source i of the structured chain giving key a its own value
YamlGood(i) ==
  IF i \in {4, 5} THEN Encrypted(GoodKey, YamlText(KEY_A :> IntVal(Digit(i))))
  ELSE YamlText(KEY_A :> IntVal(Digit(i)))

\* source i of the structured chain malformed, and an encrypted file that does
\* not decrypt
YamlBad(i) ==
  IF i \in {4, 5}
    THEN {Corrupt, Encrypted(OtherKey, YamlText(KEY_A :> IntVal(Digit(i)))),
          Encrypted(GoodKey, NotUtf8), Encrypted(GoodKey, BadYaml)}
    ELSE {BadYaml, NotUtf8}

\* every subset of the n sources of a chain present, each with its own value
Presence(n, good) ==
  { [i \in 1..n |-> IF i \in S THEN Some(good[i]) ELSE <<>>] : S \in SUBSET (1..n) }

\* one source of the chain bad; of the others all, none, or only the next one
\* is present
OneBad(n, good, bad) ==
  UNION { { [i \in 1..n |-> IF i = j THEN Some(c)
                            ELSE IF rest = "all" \/ (rest = "next" /\ i = j + 1)
                              THEN Some(good[i]) ELSE <<>>] :
            c \in bad[j], rest \in {"all", "none", "next"} } : j \in 1..n }

\* the dotenv chain varies, with A pre-set or not: every subset of the sources
\* under the key, and one bad source with and without the key
DotenvWorlds ==
  { [env |-> OptVar(A_VAR, a) @@ (KEY_VAR :> GoodKey),
     files |-> DotenvChain(o)
               @@ (Conf(DefaultYamlFile) :> YamlText(KEY_A :> IntVal(<<"6">>)))] :
     a \in Opt({<<"9">>}), o \in Presence(5, [i \in 1..5 |-> DotenvGood(i)]) }
  \cup
  { [env |-> OptVar(A_VAR, a) @@ OptVar(KEY_VAR, k),
     files |-> DotenvChain(o)
               @@ (Conf(DefaultYamlFile) :> YamlText(KEY_A :> IntVal(<<"6">>)))] :
     a \in Opt({<<"9">>}), k \in Opt({GoodKey}), o \in OneBad(5, [i \in 1..5 |-> DotenvGood(i)], [i \in 1..5 |-> DotenvBad(i)]) }

\* the structured chain varies: every subset of the sources under the key,
\* with A pre-set or not, and one bad source with and without the key
YamlWorlds ==
  { [env |-> OptVar(A_VAR, a) @@ (KEY_VAR :> GoodKey), files |-> YamlChain(o)] :
     a \in Opt({<<"9">>}), o \in Presence(6, [i \in 1..6 |-> YamlGood(i)]) }
  \cup
  { [env |-> OptVar(KEY_VAR, k), files |-> YamlChain(o)] :
     k \in Opt({GoodKey}), o \in OneBad(6, [i \in 1..6 |-> YamlGood(i)], [i \in 1..6 |-> YamlBad(i)]) }

\* values of ENV: the known names in several cases, an unknown and an empty one
EnvNames ==
  { <<"d","e","v">>, <<"D","e","v">>, <<"D","E","V">>, <<"s","t","a","g">>,
    <<"S","t","a","g">>, <<"p","r","o","d">>, <<"P","R","O","D">>, <<"q","a">>, <<>> }

\* the environment name varies, over files of two environments
EnvNameWorlds ==
  { [env |-> OptVar(ENV_VAR, n) @@ OptVar(PA_VAR, a),
     files |-> (Conf(EnvEnvFile("Dev")) :> DotenvText(<<Assign(A_VAR, <<"3">>)>>))
               @@ (Conf(EnvEnvFile("Prod")) :> DotenvText(<<Assign(A_VAR, <<"7">>)>>))
               @@ (Conf(EnvYamlFile("Dev")) :> YamlText(KEY_A :> IntVal(<<"2">>)))
               @@ (Conf(EnvYamlFile("Prod")) \o YamlExtensions[2]
                     :> YamlText(KEY_A :> IntVal(<<"8">>)))] :
     n \in Opt(EnvNames), a \in Opt({<<"a",",","b">>}) }

\* the three encrypted sources vary together, with no key, the key they were
\* encrypted under, or another key
SecretsWorlds ==
  { [env |-> OptVar(KEY_VAR, k),
     files |-> (Conf(DefaultEnvFile) :> DotenvText(<<Assign(A_VAR, <<"4">>)>>))
               @@ (Conf(DefaultYamlFile) :> YamlText(KEY_A :> IntVal(<<"1">>)))
               @@ (Conf(EnvSecretsEnvEncFile("Dev")) :> e1)
               @@ (Conf(EnvSecretsYamlEncFile("Dev")) :> e2)
               @@ (Conf(LocalSecretsYamlEncFile) :> e3)] :
     k \in Opt({GoodKey, OtherKey}),
     e1 \in {Corrupt, Encrypted(GoodKey, DotenvText(<<Assign(PA_VAR, <<"5">>)>>)),
             Encrypted(GoodKey, DotenvText(<<BadLine>>))},
     e2 \in {Corrupt, YamlGood(4), Encrypted(GoodKey, BadYaml)},
     e3 \in {Corrupt, YamlGood(5), Encrypted(OtherKey, YamlText(KEY_A :> IntVal(<<"7">>)))} }

\* a second config directory, and the dotenv assignments that name it and
\* another environment
AltConfigDir == <<".","/","a","l","t">>
Alt(name) == PathIn(AltConfigDir, name)
ResolveAssigns ==
  { <<Assign(ENV_VAR, EnvDisplay("Prod"))>>,
    <<Assign(CONFIG_DIR_VAR, AltConfigDir)>>,
    <<Assign(ENV_VAR, EnvDisplay("Prod")), Assign(CONFIG_DIR_VAR, AltConfigDir)>> }

\* ENV and CONFIG_DIR are unset and one plaintext dotenv file of ./conf defines
\* them; both directories hold files of both environments, and dev.yaml of
\* ./conf parses or not
ResolveWorlds ==
  { [env |-> EmptyMap,
     files |-> (DotenvPaths(DefaultConfigDir, "Dev")[i] :> DotenvText(a))
               @@ (Conf(EnvYamlFile("Dev")) \o YamlExtensions[1] :> y)
               @@ (Conf(EnvYamlFile("Prod")) \o YamlExtensions[1]
                     :> YamlText(KEY_A :> IntVal(<<"2">>)))
               @@ (Alt(EnvYamlFile("Dev")) \o YamlExtensions[1]
                     :> YamlText(KEY_A :> IntVal(<<"3">>)))
               @@ (Alt(EnvYamlFile("Prod")) \o YamlExtensions[1]
                     :> YamlText(KEY_A :> IntVal(<<"4">>)))
               @@ (Alt(DefaultEnvFile) :> DotenvText(<<Assign(PA_VAR, <<"5">>)>>))] :
     i \in 1..4, a \in ResolveAssigns, y \in {YamlText(KEY_A :> IntVal(<<"1">>)), BadYaml} }

\* the key is unset or pre-set to a key nothing was encrypted under, one
\* plaintext dotenv file or none defines it, and the three encrypted sources
\* exist under GoodKey
KeyWorlds ==
  { [env |-> OptVar(KEY_VAR, k),
     files |-> (IF i = 0 THEN EmptyMap
                ELSE DotenvPaths(DefaultConfigDir, "Dev")[i]
                       :> DotenvText(<<Assign(KEY_VAR, GoodKey)>>))
               @@ (Conf(DefaultYamlFile) :> YamlText(KEY_A :> IntVal(<<"1">>)))
               @@ (Conf(EnvSecretsEnvEncFile("Dev"))
                     :> Encrypted(GoodKey, DotenvText(<<Assign(PA_VAR, <<"5">>)>>)))
               @@ (Conf(EnvSecretsYamlEncFile("Dev")) :> YamlGood(4))
               @@ (Conf(LocalSecretsYamlEncFile) :> YamlGood(5))] :
     k \in Opt({OtherKey}), i \in 0..4 }

\* the text of a list value
ListText == <<"a",",","b",",","c">>

\* A and P__A hold the text of a list, set in the process environment or by
\* a dotenv file, over yaml files that give key a another value
ListWorlds ==
  { [env |-> e, files |-> f @@ y] :
     e \in {A_VAR :> ListText, PA_VAR :> ListText,
             (A_VAR :> ListText) @@ (PA_VAR :> ListText)},
     f \in {EmptyMap},
     y \in {EmptyMap, Conf(LocalYamlFile) :> YamlText(KEY_A :> IntVal(<<"6">>))} }
  \cup
  { [env |-> EmptyMap,
     files |-> (Conf(LocalEnvFile) :> DotenvText(<<Assign(A_VAR, ListText),
                                                   Assign(PA_VAR, ListText)>>))] }

\* every yaml source gives key a its own value, and one dotenv source defines
\* A or P__A
OutrankWorlds ==
  { [env |-> KEY_VAR :> GoodKey,
     files |-> YamlChain([j \in 1..6 |-> Some(YamlGood(j))])
               @@ DotenvChain([j \in 1..5 |->
                     IF j # i THEN <<>>
                     ELSE IF j = 5
                       THEN Some(Encrypted(GoodKey, DotenvText(<<Assign(n, <<"9">>)>>)))
                     ELSE Some(DotenvText(<<Assign(n, <<"9">>)>>))])] :
     i \in 1..5, n \in {A_VAR, PA_VAR} }

Worlds == DotenvWorlds \cup YamlWorlds \cup EnvNameWorlds \cup SecretsWorlds

\* the worlds in which the order of the steps of a build shows: variables the
\* build reads that a dotenv file defines, and dotenv values under yaml values
OrderWorlds ==
  ResolveWorlds \cup KeyWorlds \cup ListWorlds \cup OutrankWorlds \cup DotenvWorlds

Init ==
  /\ \E w \in Worlds : penv = w.env /\ files = w.files
  /\ CONFIG = [state |-> "incomplete", value |-> EmptyMap]
  /\ pc = [t \in Threads |-> "idle"]
  /\ loc = [t \in Threads |-> NoLoc]
  /\ ret = [t \in Threads |-> NoRet]
  /\ alive = TRUE
  /\ builds = 0
  /\ reads = EmptyMap
  /\ penv0 = penv
  /\ built = NoLoc

Next ==
  \/ \E t \in Threads, p \in Prefixes, l \in ListParseKeys : init(t, p, l)
  \/ \E t \in Threads : init_default(t)
  \/ \E t \in Threads, p \in Prefixes, l \in ListParseKeys : Wake(t, p, l)
  \/ \E t \in Threads : ResolveEnv(t)
  \/ \E t \in Threads : MergeDotenvFiles(t)
  \/ \E t \in Threads : MergeSecretsEnv(t)
  \/ \E t \in Threads : BuildTree(t)
  \/ ProcessExit

Spec == Init /\ [][Next]_vars

InitOrder ==
  /\ \E w \in OrderWorlds : penv = w.env /\ files = w.files
  /\ CONFIG = [state |-> "incomplete", value |-> EmptyMap]
  /\ pc = [t \in Threads |-> "idle"]
  /\ loc = [t \in Threads |-> NoLoc]
  /\ ret = [t \in Threads |-> NoRet]
  /\ alive = TRUE
  /\ builds = 0
  /\ reads = EmptyMap
  /\ penv0 = penv
  /\ built = NoLoc

\* the same operations over the worlds of OrderWorlds
SpecOrder == InitOrder /\ [][Next]_vars

\* ------------------------------------------------------------ LoadConfig
\* the types of field a in a caller's struct T { a }
LoadTypes == {"i64", "String", "Vec<String>"}

\* a value of T: its field a, tagged with the field's type
Loaded(ty, v) == KEY_A :> [t |-> ty, v |-> v]

\* config::Value into a field of type ty (into_int, into_string, into_array):
\* an integer where an integer or a string of digits is stored, a string where a
\* string or an integer is stored, a sequence only where a sequence is stored;
\* None for Err
IntoField(v, ty) ==
  CASE ty = "i64" ->
         IF v.t = "int" \/ (v.t = "str" /\ ParsesAsInt(v.v)) THEN Some(v.v) ELSE <<>>
    [] ty = "String" ->
         IF v.t \in {"str", "int"} THEN Some(v.v) ELSE <<>>
    [] ty = "Vec<String>" ->
         IF v.t = "list" THEN Some(v.v) ELSE <<>>

\* Config::try_deserialize::<T>(): Err for a missing field and for a value
\* that does not convert
TryDeserialize(tree, ty) ==
  IF Has(tree, KEY_A) /\ IsSome(IntoField(tree[KEY_A], ty))
    THEN Some(Loaded(ty, IntoField(tree[KEY_A], ty)[1]))
    ELSE <<>>

\* a load that builds the tree from the sources as they are now
loadFresh(t, ty) ==
  /\ alive /\ pc[t] = "idle"
  /\ LET r == BuildConfig(penv, files, DefaultConfigDir, "Dev", <<>>, <<>>, {})
         v == IF r.ok THEN TryDeserialize(r.tree, ty) ELSE <<>>
     IN  IF CONFIG.state = "complete" /\ IsSome(v)
           THEN /\ ret' = [ret EXCEPT ![t] = [how |-> "loaded", tree |-> v]]
                /\ UNCHANGED <<pc, loc>>
           ELSE /\ pc' = [pc EXCEPT ![t] = "panicked"]
                /\ loc' = [loc EXCEPT ![t] = NoLoc]
                /\ ret' = [ret EXCEPT ![t] = [how |-> "panic_load", tree |-> <<>>]]
  /\ UNCHANGED <<penv, files, CONFIG, alive, builds, reads, penv0, built>>

\* a load that falls back to an empty tree while the cell has no value
loadOrEmpty(t, ty) ==
  /\ alive /\ pc[t] = "idle"
  /\ LET v == TryDeserialize(CONFIG.value, ty)
     IN  IF CONFIG.state = "complete" /\ IsSome(v)
           THEN /\ ret' = [ret EXCEPT ![t] = [how |-> "loaded", tree |-> v]]
                /\ UNCHANGED <<pc, loc>>
           ELSE IF CONFIG.state # "complete"
             THEN /\ ret' = [ret EXCEPT ![t] = [how |-> "loaded",
                                                 tree |-> Some(Loaded(ty, <<>>))]]
                  /\ UNCHANGED <<pc, loc>>
           ELSE /\ pc' = [pc EXCEPT ![t] = "panicked"]
                /\ loc' = [loc EXCEPT ![t] = NoLoc]
                /\ ret' = [ret EXCEPT ![t] = [how |-> "panic_load", tree |-> <<>>]]
  /\ UNCHANGED <<penv, files, CONFIG, alive, builds, reads, penv0, built>>

\* lines 139-143: CONFIG.get().unwrap().clone().try_deserialize().unwrap().
\* get() is None unless the cell is complete, while a closure runs included
load(t, ty) ==
  /\ alive /\ pc[t] = "idle"
  /\ LET v == IF CONFIG.state = "complete" THEN TryDeserialize(CONFIG.value, ty) ELSE <<>>
     IN  IF IsSome(v)
           THEN /\ ret' = [ret EXCEPT ![t] = [how |-> "loaded", tree |-> v]]
                /\ UNCHANGED <<pc, loc>>
           ELSE /\ pc' = [pc EXCEPT ![t] = "panicked"]
                /\ loc' = [loc EXCEPT ![t] = NoLoc]
                /\ ret' = [ret EXCEPT ![t] = [how |-> "panic_load", tree |-> <<>>]]
  /\ UNCHANGED <<penv, files, CONFIG, alive, builds, reads, penv0, built>>

\* code outside the library sets a variable of the process environment
SetVar(n, v) ==
  /\ alive /\ penv' = Put(penv, n, v)
  /\ UNCHANGED <<files, CONFIG, pc, loc, ret, alive, builds, reads, penv0, built>>

\* a file of the config directory is written
WriteFile(p, c) ==
  /\ alive /\ files' = Put(files, p, c)
  /\ UNCHANGED <<penv, CONFIG, pc, loc, ret, alive, builds, reads, penv0, built>>

\* a file of the config directory is removed
RemoveFile(p) ==
  /\ alive /\ Has(files, p)
  /\ files' = [q \in DOMAIN files \ {p} |-> files[q]]
  /\ UNCHANGED <<penv, CONFIG, pc, loc, ret, alive, builds, reads, penv0, built>>

\* worlds of the loader: key a as an integer in default.yaml and local.yaml,
\* A unset, a number or the text of a list, ENV unset or no known name, and
\* local.yaml parsing or not
LoadWorlds ==
  { [env |-> OptVar(A_VAR, a) @@ OptVar(ENV_VAR, n),
     files |-> (Conf(DefaultYamlFile) :> YamlText(KEY_A :> IntVal(<<"1">>)))
               @@ (Conf(LocalYamlFile) :> y)] :
     a \in Opt({<<"9">>, ListText}), n \in Opt({<<"q","a">>}),
     y \in {YamlText(KEY_A :> IntVal(<<"6">>)), BadYaml} }

InitLoad ==
  /\ \E w \in LoadWorlds : penv = w.env /\ files = w.files
  /\ CONFIG = [state |-> "incomplete", value |-> EmptyMap]
  /\ pc = [t \in Threads |-> "idle"]
  /\ loc = [t \in Threads |-> NoLoc]
  /\ ret = [t \in Threads |-> NoRet]
  /\ alive = TRUE
  /\ builds = 0
  /\ reads = EmptyMap
  /\ penv0 = penv
  /\ built = NoLoc

\* the library's operations together with load and with changes to the
\* environment and the files made from outside
NextLoad ==
  \/ \E t \in Threads, p \in Prefixes, l \in ListParseKeys : init(t, p, l)
  \/ \E t \in Threads : init_default(t)
  \/ \E t \in Threads, p \in Prefixes, l \in ListParseKeys : Wake(t, p, l)
  \/ \E t \in Threads : ResolveEnv(t)
  \/ \E t \in Threads : MergeDotenvFiles(t)
  \/ \E t \in Threads : MergeSecretsEnv(t)
  \/ \E t \in Threads : BuildTree(t)
  \/ ProcessExit
  \/ \E t \in Threads, ty \in LoadTypes : load(t, ty)
  \/ SetVar(A_VAR, <<"8">>)
  \/ WriteFile(Conf(DefaultYamlFile), YamlText(KEY_A :> IntVal(<<"0">>)))
  \/ RemoveFile(Conf(LocalYamlFile))

SpecLoad == InitLoad /\ [][NextLoad]_vars

\* ================================================================== claims
MinOf(S) == CHOOSE i \in S : \A j \in S : i <= j
MaxOf(S) == CHOOSE i \in S : \A j \in S : j <= i

\* the locals of every build that has merged its dotenv sources: a build
\* about to assemble the tree, and the build whose tree is stored
MergedBuilds ==
  {loc[t] : t \in {u \in Threads : pc[u] = "build"}}
  \cup (IF CONFIG.state = "complete" THEN {built} ELSE {})

\* the maps of the seven structured sources of build b, lowest precedence
\* first: default.yaml, <env> yaml, <env>-secrets.yaml, decrypted
\* <env>-secrets.yaml.enc, decrypted local-secrets.yaml.enc, local.yaml, and
\* the environment-variable source
DecryptedMap(b, name) ==
  IF Has(files, PathIn(b.config_dir, name))
     /\ files[PathIn(b.config_dir, name)].t = "enc"
     /\ IsSome(b.key)
     /\ files[PathIn(b.config_dir, name)].key = b.key[1]
     /\ files[PathIn(b.config_dir, name)].plain.t = "yaml"
    THEN files[PathIn(b.config_dir, name)].plain.map
    ELSE EmptyMap

SourceMaps(b) ==
  << FileSource(files, PathIn(b.config_dir, DefaultYamlFile)).map,
     FileSource(files, PathIn(b.config_dir, EnvYamlFile(b.env))).map,
     FileSource(files, PathIn(b.config_dir, EnvSecretsYamlFile(b.env))).map,
     DecryptedMap(b, EnvSecretsYamlEncFile(b.env)),
     DecryptedMap(b, LocalSecretsYamlEncFile),
     FileSource(files, PathIn(b.config_dir, LocalYamlFile)).map,
     EnvSource(penv, b.prefix, b.list_parse_keys) >>

\* the sources, of the sequence src of maps, that define key k
Defining(src, k) == {i \in 1..Len(src) : Has(src[i], k)}

\* C1: in the stored tree every key holds the value of the highest-precedence
\* structured source that defines it, in the order default.yaml, <env> yaml,
\* <env>-secrets.yaml, decrypted <env>-secrets.yaml.enc, decrypted
\* local-secrets.yaml.enc, local.yaml, environment variables; and the tree has
\* no key that no source defines
C1_HighestSourceWins ==
  CONFIG.state = "complete" =>
    LET src == SourceMaps(built)
    IN  /\ DOMAIN CONFIG.value = UNION {DOMAIN src[i] : i \in 1..7}
        /\ \A k \in DOMAIN CONFIG.value :
             CONFIG.value[k] = src[MaxOf(Defining(src, k))][k]

\* C1 witness: both decrypted secrets buffers define key a with different
\* values, no higher source does, and the tree holds the later buffer's value
C1_Witness ==
  /\ CONFIG.state = "complete"
  /\ LET src == SourceMaps(built)
     IN  /\ {4, 5} \subseteq Defining(src, KEY_A)
         /\ MaxOf(Defining(src, KEY_A)) = 5
         /\ src[4][KEY_A] # src[5][KEY_A]
         /\ CONFIG.value[KEY_A] = src[5][KEY_A]

\* the dotenv sources of build b in processing order: .env, local.env,
\* <env>.env, default.env, the decrypted <env>-secrets.env.enc; None for a
\* missing file and for a buffer that was not decrypted
DotenvSource(b, i) ==
  LET path == IF i = 5 THEN PathIn(b.config_dir, EnvSecretsEnvEncFile(b.env))
              ELSE DotenvPaths(b.config_dir, b.env)[i]
  IN  IF ~ Has(files, path) THEN <<>>
      ELSE IF i < 5 THEN Some(files[path])
      ELSE IF files[path].t = "enc" /\ IsSome(b.key) /\ files[path].key = b.key[1]
        THEN Some(files[path].plain)
      ELSE <<>>

\* the lines of a dotenv text before its first line that does not parse
ParsedLines(content) ==
  LET lines == IF content.t = "dotenv" THEN content.lines ELSE <<>>
      bad == {i \in 1..Len(lines) : ~ lines[i].ok}
  IN  IF bad = {} THEN lines ELSE SubSeq(lines, 1, MinOf(bad) - 1)

\* the value dotenv source i of build b gives variable n: that of its first
\* assignment to n, None if it has none
DotenvValue(b, i, n) ==
  LET lines == IF IsSome(DotenvSource(b, i)) THEN ParsedLines(DotenvSource(b, i)[1])
               ELSE <<>>
      at == {j \in 1..Len(lines) : lines[j].k = n}
  IN  IF at = {} THEN <<>> ELSE Some(lines[MinOf(at)].v)

DotenvDefining(b, n) == {i \in 1..5 : IsSome(DotenvValue(b, i, n))}

\* C2: a variable set in the process environment when a build starts keeps its
\* value through the dotenv files and the decrypted dotenv secrets
C2_PresetKept ==
  \A n \in DOMAIN penv0 : Has(penv, n) /\ penv[n] = penv0[n]

\* C2 witness: A was pre-set, all five dotenv sources give it another value,
\* and after the merge A still has the pre-set value
C2_Witness ==
  \E b \in MergedBuilds :
    /\ Has(penv0, A_VAR)
    /\ DotenvDefining(b, A_VAR) = 1..5
    /\ \A i \in 1..5 : DotenvValue(b, i, A_VAR)[1] # penv0[A_VAR]
    /\ penv[A_VAR] = penv0[A_VAR]

C4_InitializedIsTerminal ==
  [][CONFIG.state = "complete" =>
       /\ CONFIG' = CONFIG /\ built' = built
       /\ penv' = penv /\ builds' = builds /\ reads' = reads]_vars

\* C4 witness: the tree is stored, one build was run, and every thread, the
\* one that built included, has made a later call that returned the stored tree
C4_Witness ==
  /\ CONFIG.state = "complete" /\ builds = 1
  /\ \A t \in Threads : ret[t] = [how |-> "noop", tree |-> Some(CONFIG.value)]

Building == {t \in Threads : pc[t] \in {"resolve", "dotenv", "secrets", "build"}}
Panicked == {t \in Threads : pc[t] = "panicked"}

EndsWith(s, suffix) ==
  Len(suffix) <= Len(s) /\ SubSeq(s, Len(s) - Len(suffix) + 1, Len(s)) = suffix

IsEncPath(p) == EndsWith(p, <<".","e","n","c">>)

\* the file system without the files of the set P of paths
Without(fs, P) == [p \in DOMAIN fs \ P |-> fs[p]]

\* the encrypted files that do not decrypt under key
Undecryptable(key) ==
  {p \in DOMAIN files : IsEncPath(p) /\ ~ (files[p].t = "enc" /\ files[p].key = key)}

\* the located or decrypted dotenv sources of build b that do not parse
MalformedDotenv(b) ==
  {i \in 1..5 : IsSome(DotenvSource(b, i))
                /\ ParsedLines(DotenvSource(b, i)[1]) # DotenvSource(b, i)[1].lines}
  \cup {i \in 1..5 : IsSome(DotenvSource(b, i)) /\ DotenvSource(b, i)[1].t # "dotenv"}

\* the located yaml files and decrypted yaml buffers of build b that do not parse
MalformedYaml(b) ==
  {p \in {PathIn(b.config_dir, DefaultYamlFile), PathIn(b.config_dir, EnvYamlFile(b.env)),
          PathIn(b.config_dir, EnvSecretsYamlFile(b.env)),
          PathIn(b.config_dir, LocalYamlFile)} :
     IsSome(FindFile(files, p)) /\ files[FindFile(files, p)[1]].t # "yaml"}
  \cup {p \in {PathIn(b.config_dir, EnvSecretsYamlEncFile(b.env)),
                PathIn(b.config_dir, LocalSecretsYamlEncFile)} :
         /\ Has(files, p) /\ IsSome(b.key)
         /\ files[p].t = "enc" /\ files[p].key = b.key[1] /\ files[p].plain.t # "yaml"}

\* C6: with no encryption key set, the step of lines 59-71 leaves the process
\* environment as it is and never fails, the structured build ends exactly as
\* on a file system without any .enc file (the same tree, or the same failure),
\* and no .enc file is handed to a reader
C6_NoKeyNoSecrets ==
  [][\A t \in Threads :
       /\ (pc[t] = "secrets" /\ ~ Has(penv, KEY_VAR) /\ pc'[t] # "secrets") =>
            /\ pc'[t] = "build" /\ loc'[t].key = <<>>
            /\ penv' = penv /\ reads' = reads
       /\ (pc[t] = "build" /\ loc[t].key = <<>> /\ pc'[t] # "build") =>
            LET r == BuildConfig(penv, Without(files, {p \in DOMAIN files : IsEncPath(p)}),
                                 loc[t].config_dir, loc[t].env, <<>>,
                                 loc[t].prefix, loc[t].list_parse_keys)
            IN  /\ IF r.ok THEN CONFIG' = [state |-> "complete", value |-> r.tree]
                           ELSE pc'[t] = "panicked"
                /\ pc'[t] = "panicked" => MalformedYaml(loc[t]) # {}
                /\ \A p \in DOMAIN reads' : IsEncPath(p) => Has(reads, p) /\ reads'[p] = reads[p]
    ]_vars

\* C6 witness: no key is set, all three encrypted files exist and decrypt
\* under some key, the tree is stored and holds for key a the value of
\* default.yaml, and A holds the value of default.env
C6_Witness ==
  /\ CONFIG.state = "complete" /\ built.key = <<>> /\ ~ Has(penv, KEY_VAR)
  /\ \A p \in {Conf(EnvSecretsEnvEncFile("Dev")), Conf(EnvSecretsYamlEncFile("Dev")),
                Conf(LocalSecretsYamlEncFile)} : Has(files, p) /\ files[p].t = "enc"
  /\ built.prefix = Some(<<"P">>)
  /\ CONFIG.value = (KEY_A :> IntVal(<<"1">>))
  /\ ~ Has(penv, PA_VAR)

\* C7: with a key set, an encrypted file that is missing or does not decrypt
\* under the key never makes a step fail: the step of lines 59-71 and the
\* structured build end exactly as on a file system without those files, and
\* they fail only when a located or decrypted source does not parse
C7_DecryptFailureIsAbsence ==
  [][\A t \in Threads :
       /\ (pc[t] = "secrets" /\ Has(penv, KEY_VAR) /\ pc'[t] # "secrets") =>
            LET key == Some(penv[KEY_VAR])
                r == LoadSecretsEnv(penv, Without(files, Undecryptable(key[1])),
                                    loc[t].config_dir, loc[t].env, key)
            IN  /\ penv' = r.env
                /\ IF r.ok THEN pc'[t] = "build" ELSE pc'[t] = "panicked"
                /\ pc'[t] = "panicked" => 5 \in MalformedDotenv([loc[t] EXCEPT !.key = key])
       /\ (pc[t] = "build" /\ IsSome(loc[t].key) /\ pc'[t] # "build") =>
            LET r == BuildConfig(penv, Without(files, Undecryptable(loc[t].key[1])),
                                 loc[t].config_dir, loc[t].env, loc[t].key,
                                 loc[t].prefix, loc[t].list_parse_keys)
            IN  /\ IF r.ok THEN CONFIG' = [state |-> "complete", value |-> r.tree]
                           ELSE pc'[t] = "panicked"
                /\ pc'[t] = "panicked" => MalformedYaml(loc[t]) # {}
    ]_vars

\* C7 witness: the key is set, <env>-secrets.env.enc and <env>-secrets.yaml.enc
\* exist and do not decrypt, local-secrets.yaml.enc decrypts, and the tree is
\* stored with the value of local-secrets.yaml.enc for key a
C7_Witness ==
  /\ CONFIG.state = "complete" /\ IsSome(built.key)
  /\ {Conf(EnvSecretsEnvEncFile("Dev")), Conf(EnvSecretsYamlEncFile("Dev"))}
       \subseteq Undecryptable(built.key[1])
  /\ Has(files, Conf(LocalSecretsYamlEncFile))
  /\ Conf(LocalSecretsYamlEncFile) \notin Undecryptable(built.key[1])
  /\ built.prefix = Some(<<"P">>)
  /\ CONFIG.value = (KEY_A :> files[Conf(LocalSecretsYamlEncFile)].plain.map[KEY_A])

\* C8 as claimed: the tree is stored only if no located dotenv file, decrypted
\* dotenv buffer, located yaml file or decrypted yaml buffer is malformed
C8_MalformedIsFatal ==
  CONFIG.state = "complete" => MalformedDotenv(built) = {} /\ MalformedYaml(built) = {}

\* the names strum serializes the variants to
KnownEnvName ==
  [Dev |-> <<"d","e","v">>, Stag |-> <<"s","t","a","g">>, Prod |-> <<"p","r","o","d">>]
KnownEnvNames == {KnownEnvName[e] : e \in DOMAIN KnownEnvName}

\* the locals of every build that has resolved its environment
ResolvedBuilds ==
  {loc[t] : t \in {u \in Threads : pc[u] \in {"dotenv", "secrets", "build"}}}
  \cup (IF CONFIG.state = "complete" THEN {built} ELSE {})

\* C9 as claimed: a name that is a known name in any case resolves to its
\* variant and never makes initialization fail
C9_CaseInsensitive ==
  (Has(penv0, ENV_VAR) /\ ToLowercase(penv0[ENV_VAR]) \in KnownEnvNames) =>
    /\ \A t \in Threads : ret[t].how # "panic_env"
    /\ \A b \in ResolvedBuilds : KnownEnvName[b.env] = ToLowercase(penv0[ENV_VAR])

\* C9 as amended: the name is matched exactly against "dev", "stag" and
\* "prod"; such a name resolves to its variant, an unset ENV to Dev, and the
\* build fails on the name exactly when ENV is set to anything else, a known
\* name in another case included
C9_ExactLowercaseNames ==
  /\ \A b \in ResolvedBuilds :
       IF Has(penv0, ENV_VAR) THEN KnownEnvName[b.env] = penv0[ENV_VAR]
       ELSE b.env = "Dev"
  /\ \A t \in Threads :
       ret[t].how = "panic_env" => Has(penv0, ENV_VAR) /\ penv0[ENV_VAR] \notin KnownEnvNames
  /\ (Has(penv0, ENV_VAR) /\ penv0[ENV_VAR] \notin KnownEnvNames) =>
       ResolvedBuilds = {} /\ \A t \in Threads : pc[t] = "panicked" => ret[t].how = "panic_env"

\* C9 witness: ENV is "prod", a build has resolved Prod and reads prod.env
C9_Witness ==
  /\ Has(penv0, ENV_VAR) /\ penv0[ENV_VAR] = <<"p","r","o","d">>
  /\ \E t \in Threads : pc[t] = "secrets" /\ loc[t].env = "Prod"
  /\ Has(reads, Conf(EnvEnvFile("Prod")))

\* C10: while ENV is set to a name that is none of the three known names, every
\* build stops at the name: no build goes past lines 45-49, no file is applied
\* to the process environment, and the cell stays without value
C10_UnknownEnvAborts ==
  (Has(penv0, ENV_VAR) /\ penv0[ENV_VAR] \notin KnownEnvNames) =>
    /\ CONFIG.state # "complete" /\ CONFIG.value = EmptyMap
    /\ \A t \in Threads : pc[t] \notin {"dotenv", "secrets", "build"}
    /\ penv = penv0

\* C10 witness: ENV is "qa", a thread has panicked on the name, and the cell is
\* left without value
C10_Witness ==
  /\ Has(penv0, ENV_VAR) /\ penv0[ENV_VAR] = <<"q","a">>
  /\ \E t \in Threads : ret[t].how = "panic_env"
  /\ CONFIG.state = "poisoned"

\* the threads whose last call was a load that returned a value
LoadedThreads == {t \in Threads : ret[t].how = "loaded"}

\* C11: a load called while the cell holds no tree (never initialized, a
\* closure running, or an init that panicked) panics and hands back no value:
\* a thread comes to hold a loaded value only by a step taken with the cell
\* complete, and every load step taken without it ends in the panic of its thread
C11_LoadBeforeInitIsFatal ==
  [][\A t \in Threads :
       /\ (ret'[t] # ret[t] /\ ret'[t].how = "loaded") => CONFIG.state = "complete"
       /\ \A ty \in LoadTypes :
            (CONFIG.state # "complete" /\ load(t, ty)) =>
              /\ pc'[t] = "panicked"
              /\ ret'[t] = [how |-> "panic_load", tree |-> <<>>]
    ]_vars

\* C11 witness: an init panicked on one thread, the cell is left without tree,
\* and a load on another thread panicked
C11_Witness ==
  /\ CONFIG.state = "poisoned" /\ builds >= 1
  /\ \E t, u \in Threads :
       /\ ret[t].how \in {"panic_env", "panic_build"}
       /\ ret[u].how = "panic_load" /\ pc[u] = "panicked"

\* C12: in the stored tree, a variable whose text is "a,b,c" gives the key it
\* binds to the sequence ["a","b","c"] when the key is in list_parse_keys, and
\* the one string "a,b,c" when it is not (no list_parse_keys at all included)
C12_ListKeysSplit ==
  CONFIG.state = "complete" =>
    \A n \in DOMAIN penv :
      (penv[n] = ListText /\ IsSome(EnvKey(n, built.prefix))) =>
        LET k == EnvKey(n, built.prefix)[1]
        IN  /\ Has(CONFIG.value, k)
            /\ CONFIG.value[k] = IF k \in built.list_parse_keys
                                   THEN ListVal(<< <<"a">>, <<"b">>, <<"c">> >>)
                                   ELSE StrVal(ListText)

\* C12 witness: A and P__A both hold "a,b,c", init was called without prefix
\* and with list_parse_keys ["a"], local.yaml defines a too, and the tree holds
\* the sequence for key a and the string for key p.a
C12_Witness ==
  /\ CONFIG.state = "complete"
  /\ built.prefix = <<>> /\ built.list_parse_keys = {KEY_A}
  /\ Has(penv, A_VAR) /\ penv[A_VAR] = ListText
  /\ Has(penv, PA_VAR) /\ penv[PA_VAR] = ListText
  /\ Has(files, Conf(LocalYamlFile))
  /\ CONFIG.value[KEY_A] = ListVal(<< <<"a">>, <<"b">>, <<"c">> >>)
  /\ CONFIG.value[<<"p", ".", "a">>] = StrVal(ListText)

\* build b finds default.yaml and local.yaml, both parse and define key k, every
\* other file of the file system is a dotenv text, and no variable binds to k
OnlyDefaultAndLocal(b, k) ==
  LET dflt == PathIn(b.config_dir, DefaultYamlFile)
      lcl == PathIn(b.config_dir, LocalYamlFile)
  IN  /\ Has(files, dflt) /\ files[dflt].t = "yaml" /\ Has(files[dflt].map, k)
      /\ Has(files, lcl) /\ files[lcl].t = "yaml" /\ Has(files[lcl].map, k)
      /\ \A p \in DOMAIN files \ {dflt, lcl} : files[p].t = "dotenv"
      /\ \A n \in DOMAIN penv : EnvKey(n, b.prefix) # Some(k)

\* C13: when default.yaml and local.yaml define a key and no other source
\* does, the build stores local.yaml's value for it, and the same build on the
\* file system without local.yaml succeeds with default.yaml's value
C13_LocalRemovalFallsBack ==
  [][\A t \in Threads : \A k \in {KEY_A} :
       (pc[t] = "build" /\ pc'[t] # "build" /\ OnlyDefaultAndLocal(loc[t], k)) =>
         LET lcl == PathIn(loc[t].config_dir, LocalYamlFile)
             dflt == PathIn(loc[t].config_dir, DefaultYamlFile)
             r == BuildConfig(penv, Without(files, {lcl}), loc[t].config_dir,
                              loc[t].env, loc[t].key, loc[t].prefix,
                              loc[t].list_parse_keys)
         IN  /\ CONFIG'.state = "complete"
             /\ Has(CONFIG'.value, k) /\ CONFIG'.value[k] = files[lcl].map[k]
             /\ r.ok /\ Has(r.tree, k) /\ r.tree[k] = files[dflt].map[k]
    ]_vars

\* C13 witness: default.yaml gives key a the value 1 and local.yaml the value
\* 6, A is set but does not bind under prefix P, and the stored tree holds 6
C13_Witness ==
  /\ CONFIG.state = "complete" /\ built.prefix = Some(<<"P">>)
  /\ OnlyDefaultAndLocal(built, KEY_A)
  /\ Has(penv, A_VAR)
  /\ files[Conf(DefaultYamlFile)].map[KEY_A] = IntVal(<<"1">>)
  /\ files[Conf(LocalYamlFile)].map[KEY_A] = IntVal(<<"6">>)
  /\ CONFIG.value[KEY_A] = IntVal(<<"6">>)

\* the type a loaded value of thread t was deserialized as
LoadedType(t) == ret[t].tree[1][KEY_A].t

\* C14: once the cell is complete no step changes it, be it an init, an
\* init_default, a load, or a change made from outside to the process
\* environment or to the files; every loaded value is the stored tree
\* deserialized, so two loads of one type hold equal values
C14_TreeNeverChanges ==
  [][/\ (CONFIG.state = "complete" => CONFIG' = CONFIG)
     /\ \A t \in Threads :
          ret'[t].how = "loaded" =>
            /\ CONFIG'.state = "complete"
            /\ \E ty \in LoadTypes : ret'[t].tree = TryDeserialize(CONFIG'.value, ty)
     /\ \A t, u \in Threads :
          (ret'[t].how = "loaded" /\ ret'[u].how = "loaded"
           /\ ret'[t].tree[1][KEY_A].t = ret'[u].tree[1][KEY_A].t) =>
            ret'[t].tree = ret'[u].tree
    ]_vars

\* C14 witness: the tree was built without prefix, with key a from local.yaml;
\* since then A was set, default.yaml rewritten and local.yaml removed, and
\* every thread has loaded the same type and holds local.yaml's value
C14_Witness ==
  /\ CONFIG.state = "complete" /\ built.prefix = <<>>
  /\ CONFIG.value = (KEY_A :> IntVal(<<"6">>))
  /\ Has(penv, A_VAR) /\ penv[A_VAR] = <<"8">>
  /\ ~ Has(files, Conf(LocalYamlFile))
  /\ files[Conf(DefaultYamlFile)].map[KEY_A] = IntVal(<<"0">>)
  /\ LoadedThreads = Threads
  /\ \A t \in Threads :
       LoadedType(t) = "String" /\ ret[t].tree[1][KEY_A].v = <<"6">>

\* the threads whose init panicked inside the closure
FailedInits ==
  {t \in Threads : ret[t].how \in {"panic_env", "panic_secrets", "panic_build"}}

\* the number of times path p was handed to a reader
ReadCount(r, p) == IF Has(r, p) THEN r[p] ELSE 0

ValuesOfText(x) == {StrVal(x), IntVal(x), ListVal(Split(x, ListSeparator))}

\* C16: in the stored tree, a variable that a dotenv source defined and that
\* binds to a key gives the key its value, whatever the yaml sources define for
\* the key; for a variable that was not pre-set this is the value of the first
\* dotenv source defining it
C16_DotenvOutranksYaml ==
  CONFIG.state = "complete" =>
    \A n \in VarNames :
      (DotenvDefining(built, n) # {} /\ IsSome(EnvKey(n, built.prefix))) =>
        LET k == EnvKey(n, built.prefix)[1]
        IN  /\ Has(penv, n) /\ Has(CONFIG.value, k)
            /\ CONFIG.value[k] \in ValuesOfText(penv[n])
            /\ ~ Has(penv0, n) =>
                 CONFIG.value[k] \in
                   ValuesOfText(DotenvValue(built, MinOf(DotenvDefining(built, n)), n)[1])

\* C16 witness: all six yaml sources define key a, A was not pre-set and only
\* default.env defines it, and the tree holds default.env's value for a
C16_Witness ==
  /\ CONFIG.state = "complete" /\ built.prefix = <<>>
  /\ ~ Has(penv0, A_VAR) /\ DotenvDefining(built, A_VAR) = {4}
  /\ LET src == SourceMaps(built)
     IN  /\ 1..6 \subseteq Defining(src, KEY_A)
         /\ \A i \in 1..6 : src[i][KEY_A].v # <<"9">>
  /\ CONFIG.value[KEY_A].v = <<"9">>

\* C17 as claimed: for a variable that was not pre-set and that only default.env
\* and the decrypted <env>-secrets.env.enc define, with different values, the
\* merged environment holds the value of the decrypted secrets
C17_SecretsEnvOverDefaultEnv ==
  \A b \in MergedBuilds : \A n \in VarNames \ DOMAIN penv0 :
    (DotenvDefining(b, n) = {4, 5}
     /\ DotenvValue(b, 4, n) # DotenvValue(b, 5, n)) =>
      Has(penv, n) /\ penv[n] = DotenvValue(b, 5, n)[1]

\* C18: the directory and the environment of a build are those of the
\* process environment as it was when the build started, whatever the dotenv
\* files define for CONFIG_DIR and ENV; every path a first build reads lies in
\* that directory; and a value a dotenv source gives ENV or CONFIG_DIR, when
\* the variable was unset, is left in the process environment after the merge
C18_ResolvedBeforeDotenv ==
  /\ \A b \in ResolvedBuilds :
       /\ b.config_dir = IF Has(penv0, CONFIG_DIR_VAR) THEN penv0[CONFIG_DIR_VAR]
                         ELSE DefaultConfigDir
       /\ EnvDisplay(b.env) = IF Has(penv0, ENV_VAR) THEN penv0[ENV_VAR]
                              ELSE DefaultEnvName
       /\ builds = 1 => \A p \in DOMAIN reads : StartsWith(p, b.config_dir \o <<"/">>)
  /\ \A b \in MergedBuilds : \A n \in {ENV_VAR, CONFIG_DIR_VAR} \ DOMAIN penv0 :
       DotenvDefining(b, n) # {} =>
         Has(penv, n) /\ penv[n] = DotenvValue(b, MinOf(DotenvDefining(b, n)), n)[1]

\* C18 witness: ENV and CONFIG_DIR were unset, a dotenv file of ./conf set
\* them to prod and ./alt, and the one build used ./conf and Dev to the end:
\* the tree holds the value of ./conf/dev.yaml and no file of ./alt was read
C18_Witness ==
  /\ CONFIG.state = "complete" /\ builds = 1
  /\ ~ Has(penv0, ENV_VAR) /\ ~ Has(penv0, CONFIG_DIR_VAR)
  /\ Has(penv, ENV_VAR) /\ penv[ENV_VAR] = EnvDisplay("Prod")
  /\ Has(penv, CONFIG_DIR_VAR) /\ penv[CONFIG_DIR_VAR] = AltConfigDir
  /\ built.env = "Dev" /\ built.config_dir = DefaultConfigDir
  /\ Has(files, Alt(EnvYamlFile("Prod")) \o YamlExtensions[1])
  /\ CONFIG.value = (KEY_A :> IntVal(<<"1">>))
  /\ \A p \in DOMAIN reads : ~ StartsWith(p, AltConfigDir)

\* the key of build b: the pre-set one, else the one the first of the four
\* plaintext dotenv files defining it gives, else None
ExpectedKey(b) ==
  LET d == {i \in 1..4 : IsSome(DotenvValue(b, i, KEY_VAR))}
  IN  IF Has(penv0, KEY_VAR) THEN Some(penv0[KEY_VAR])
      ELSE IF d = {} THEN <<>>
      ELSE Some(DotenvValue(b, MinOf(d), KEY_VAR)[1])

\* the three encrypted sources of build b
EncPaths(b) ==
  { PathIn(b.config_dir, EnvSecretsEnvEncFile(b.env)),
    PathIn(b.config_dir, EnvSecretsYamlEncFile(b.env)),
    PathIn(b.config_dir, LocalSecretsYamlEncFile) }

\* C19: the key a build uses is the pre-set one or, when none is pre-set, the
\* one a plaintext dotenv file defines; with a key the build that stores the
\* tree has attempted all three encrypted sources, and it has attempted none
\* only when neither the environment nor a plaintext dotenv file defines the key
C19_KeyReadAfterDotenv ==
  /\ \A t \in Threads : pc[t] = "build" => loc[t].key = ExpectedKey(loc[t])
  /\ CONFIG.state = "complete" =>
       /\ built.key = ExpectedKey(built)
       /\ IsSome(ExpectedKey(built)) => EncPaths(built) \subseteq DOMAIN reads
       /\ (builds = 1 /\ ~ IsSome(ExpectedKey(built))) =>
            \A p \in DOMAIN reads : ~ IsEncPath(p)

\* C19 witness: the key was not pre-set and default.env defines it; the
\* decrypted dotenv secrets set P__A and the tree holds the value of the
\* decrypted local-secrets.yaml.enc
C19_Witness ==
  /\ CONFIG.state = "complete" /\ built.prefix = <<>>
  /\ ~ Has(penv0, KEY_VAR)
  /\ {i \in 1..4 : IsSome(DotenvValue(built, i, KEY_VAR))} = {4}
  /\ built.key = Some(GoodKey)
  /\ Has(penv, PA_VAR) /\ penv[PA_VAR] = <<"5">>
  /\ CONFIG.value[KEY_A] = IntVal(<<"5">>)
  /\ EncPaths(built) \subseteq DOMAIN reads
====
